---- MODULE Spec2Model ----
(***************************************************************************)
(* Dimmerly/BridgingHeader.h under a C preprocessor.                       *)
(*                                                                         *)
(* The header is four directives (lines 11, 12, 14 and 16): an #ifndef on  *)
(* the sentinel BridgingHeader_h, the #define of the sentinel, the         *)
(* #include of <IOKit/i2c/IOI2CInterface.h> and the closing #endif.  The   *)
(* model runs one translation unit through a preprocessor: a stack of open *)
(* files, the macro table, the stream of declarations emitted so far and   *)
(* the diagnostics.  One action is one directive.                          *)
(***************************************************************************)
EXTENDS Naturals, Sequences, FiniteSets

VARIABLES
    arch,           \* target CPU architecture of the build
    headerPresent,  \* does the SDK ship IOKit/i2c/IOI2CInterface.h
    cycleAt,        \* 0, or the place in the platform header of an include back to the shim
    macros,         \* the macro table: the set of defined macro names
    stack,          \* the include stack, innermost file last
    out,            \* the declarations emitted so far, in order
    status,         \* "running", "done" (object produced) or "error" (fatal, no object)
    diags,          \* the diagnostics reported so far
    inclusions,     \* how many times BridgingHeader.h has been entered
    processed,      \* how many times line 14 has opened the platform header
    skipped,        \* how many times line 11 has jumped to line 16
    firstPre,       \* the macro table on entry to the first inclusion
    firstOutAt,     \* Len(out) on entry to the first inclusion
    firstOutcome    \* what the first inclusion did: "none" yet, "processed", "missing", "skipped"

envVars  == <<arch, headerPresent, cycleAt>>
histVars == <<inclusions, processed, skipped, firstPre, firstOutAt, firstOutcome>>
vars     == <<arch, headerPresent, cycleAt, macros, stack, out, status, diags,
              inclusions, processed, skipped, firstPre, firstOutAt, firstOutcome>>

(***************************************************************************)
(* Bounds of the model.                                                    *)
(***************************************************************************)
\* directives in the translation unit's own file
MaxMainLen == 3
\* the preprocessor's include nesting limit
MaxDepth == 6

(***************************************************************************)
(* The shim: src/Dimmerly/BridgingHeader.h                                 *)
(***************************************************************************)
\* the sentinel of lines 11, 12 and 16
SENTINEL == "BridgingHeader_h"

\* (variant) line 14 naming another header of the framework
IncludeTargetWrong == "IOKit/IOKitLib.h"

\* the file line 14 names
IncludeTarget == "IOKit/i2c/IOI2CInterface.h"

\* (variant) no guard: the group is entered on every inclusion
IfndefAlways(m) == TRUE

\* (variant) the group also depends on a macro of the translation unit
IfndefDebugGated(m) == SENTINEL \notin m /\ "DEBUG" \notin m

\* (variant) the group is gated on the architecture the comment of lines 5-8 names
IfndefArchGated(m) == SENTINEL \notin m /\ "__x86_64__" \in m

\* line 11, #ifndef BridgingHeader_h: is the guarded group entered
IfndefTaken(m) == SENTINEL \notin m

\* (variant) line 12 defines a second macro beside the sentinel
DefineSentinelAndMore(m) == m \cup {SENTINEL, "DEBUG"}

\* line 12, #define BridgingHeader_h: the macro table after it
DefineSentinel(m) == m \cup {SENTINEL}

\* (variant) lines 12 and 14 swapped: the include comes before the #define
ShimSuccSwapped(pc) == CASE pc = 11 -> 14
                         [] pc = 14 -> 12
                         [] pc = 12 -> 16

\* the order of the directives: the line that follows each one inside the group
ShimSucc(pc) == CASE pc = 11 -> 12
                  [] pc = 12 -> 14
                  [] pc = 14 -> 16

(***************************************************************************)
(* What surrounds the shim: the platform header, the architectures, the    *)
(* macros other artifacts define, the translation unit's own declarations. *)
(***************************************************************************)
Archs == {"x86_64", "arm64"}

ArchMacro(a) == IF a = "x86_64" THEN "__x86_64__" ELSE "__arm64__"

\* (variant) another artifact uses the shim's sentinel as a macro of its own
UserMacrosColliding == {"DEBUG", SENTINEL}

\* macros the translation unit defines itself (command line or #define)
UserMacros == {"DEBUG"}

\* every macro name an artifact other than the shim defines
ForeignMacros == {ArchMacro(a) : a \in Archs} \cup UserMacros

\* the platform I2C interface header
PlatformHeader == "IOKit/i2c/IOI2CInterface.h"

\* another header of the same framework, which the SDK always ships
OtherHeader == "IOKit/IOKitLib.h"

OtherDecls == << "IOServiceGetMatchingService" >>

\* the headers the SDK of this build ships
SdkFiles == {OtherHeader} \cup (IF headerPresent THEN {PlatformHeader} ELSE {})

\* the declarations of the platform I2C interface header, in its order
PlatformDecls == << "IOI2CRequest", "IOFBGetI2CInterfaceCount", "IOI2CInterfaceOpen",
                    "IOI2CInterfaceClose", "IOI2CSendRequest" >>

\* those of them that are type definitions: defining one twice is an error
PlatformTypes == {"IOI2CRequest"}

\* declarations of the translation unit itself
TUDecls == {"brightness"}

Shim == "BridgingHeader.h"

Range(s) == {s[i] : i \in 1..Len(s)}

\* the platform header's text: its declarations, with the include back to the
\* shim (when the header has one) at place cycleAt
PlatformText ==
    IF cycleAt = 0 THEN [i \in 1..Len(PlatformDecls) |-> [k |-> "decl", n |-> PlatformDecls[i]]]
    ELSE [i \in 1..(Len(PlatformDecls) + 1) |->
            IF i < cycleAt THEN [k |-> "decl", n |-> PlatformDecls[i]]
            ELSE IF i = cycleAt THEN [k |-> "include", n |-> Shim]
            ELSE [k |-> "decl", n |-> PlatformDecls[i - 1]]]

\* the text of an SDK header
FileText(f) ==
    IF f = PlatformHeader THEN PlatformText
    ELSE [i \in 1..Len(OtherDecls) |-> [k |-> "decl", n |-> OtherDecls[i]]]

(***************************************************************************)
(* The preprocessor.                                                       *)
(***************************************************************************)
Top == stack[Len(stack)]

Running(f) == status = "running" /\ Len(stack) > 0 /\ Top.file = f

InSdkFile == status = "running" /\ Len(stack) > 0 /\ Top.file \in {PlatformHeader, OtherHeader}

\* the stack with the innermost file's position set to pc
At(pc) == [stack EXCEPT ![Len(stack)].pc = pc]

Pop == SubSeq(stack, 1, Len(stack) - 1)

Names(s) == {s[i].name : i \in 1..Len(s)}

MissingDiag == <<"file not found", IncludeTarget>>
DepthDiag   == <<"#include nested too deeply", Shim>>
RedefDiag(n) == <<"redefinition", n>>

\* #include "BridgingHeader.h" with the including file left at `ret`: the shim is
\* opened at its first directive, or the nesting limit ends the build
EnterShim(ret) ==
    IF Len(ret) >= MaxDepth
    THEN /\ status' = "error"
         /\ diags' = diags \cup {DepthDiag}
         /\ stack' = ret
         /\ UNCHANGED histVars
    ELSE /\ stack' = Append(ret, [file |-> Shim, pc |-> 11, n |-> inclusions + 1])
         /\ inclusions' = inclusions + 1
         /\ firstPre' = IF inclusions = 0 THEN macros ELSE firstPre
         /\ firstOutAt' = IF inclusions = 0 THEN Len(out) ELSE firstOutAt
         /\ UNCHANGED <<status, diags, processed, skipped, firstOutcome>>

---------------------------------------------------------------------------
(* The translation unit's own file. *)

TUIncludeShim ==
    /\ Running("main")
    /\ Top.pc < MaxMainLen
    /\ EnterShim(At(Top.pc + 1))
    /\ UNCHANGED <<envVars, macros, out>>

TUDefine ==
    /\ Running("main")
    /\ Top.pc < MaxMainLen
    /\ \E m \in UserMacros :
          /\ m \notin macros
          /\ macros' = macros \cup {m}
    /\ stack' = At(Top.pc + 1)
    /\ UNCHANGED <<envVars, out, status, diags, histVars>>

TUUndef ==
    /\ Running("main")
    /\ Top.pc < MaxMainLen
    /\ \E m \in UserMacros :
          /\ m \in macros
          /\ macros' = macros \ {m}
    /\ stack' = At(Top.pc + 1)
    /\ UNCHANGED <<envVars, out, status, diags, histVars>>

TUDeclare ==
    /\ Running("main")
    /\ Top.pc < MaxMainLen
    /\ \E d \in TUDecls :
          /\ d \notin Names(out)
          /\ out' = Append(out, [name |-> d, origin |-> "main"])
    /\ stack' = At(Top.pc + 1)
    /\ UNCHANGED <<envVars, macros, status, diags, histVars>>

\* end of the translation unit: an object is produced iff nothing was diagnosed
TUEnd ==
    /\ Running("main")
    /\ status' = IF diags = {} THEN "done" ELSE "error"
    /\ UNCHANGED <<envVars, macros, stack, out, diags, histVars>>

---------------------------------------------------------------------------
(* BridgingHeader.h, one action per directive. *)

\* line 11: #ifndef BridgingHeader_h
ShimIfndef ==
    /\ Running(Shim)
    /\ Top.pc = 11
    /\ IF IfndefTaken(macros)
       THEN /\ stack' = At(ShimSucc(11))
            /\ UNCHANGED <<skipped, firstOutcome>>
       ELSE /\ stack' = At(16)
            /\ skipped' = skipped + 1
            /\ firstOutcome' = IF Top.n = 1 THEN "skipped" ELSE firstOutcome
    /\ UNCHANGED <<envVars, macros, out, status, diags,
                   inclusions, processed, firstPre, firstOutAt>>

\* (variant) line 12 written as a definition with external linkage beside the macro
ShimDefineTentative ==
    /\ Running(Shim)
    /\ Top.pc = 12
    /\ macros' = DefineSentinel(macros)
    /\ out' = Append(out, [name |-> SENTINEL, origin |-> Shim])
    /\ stack' = At(ShimSucc(12))
    /\ UNCHANGED <<envVars, status, diags, histVars>>

\* line 12: #define BridgingHeader_h
ShimDefine ==
    /\ Running(Shim)
    /\ Top.pc = 12
    /\ macros' = DefineSentinel(macros)
    /\ stack' = At(ShimSucc(12))
    /\ UNCHANGED <<envVars, out, status, diags, histVars>>

\* (variant) line 14 under __has_include: a missing header is passed over in silence
ShimIncludeOptional ==
    /\ Running(Shim)
    /\ Top.pc = 14
    /\ IF IncludeTarget \in SdkFiles
       THEN /\ stack' = Append(At(ShimSucc(14)), [file |-> IncludeTarget, pc |-> 1, n |-> 0])
            /\ processed' = processed + 1
            /\ firstOutcome' = IF Top.n = 1 THEN "processed" ELSE firstOutcome
       ELSE /\ stack' = At(ShimSucc(14))
            /\ firstOutcome' = IF Top.n = 1 THEN "missing" ELSE firstOutcome
            /\ UNCHANGED processed
    /\ UNCHANGED <<envVars, macros, out, status, diags, inclusions, skipped, firstPre, firstOutAt>>

\* line 14: #include <IOKit/i2c/IOI2CInterface.h>
ShimInclude ==
    /\ Running(Shim)
    /\ Top.pc = 14
    /\ IF IncludeTarget \in SdkFiles
       THEN /\ stack' = Append(At(ShimSucc(14)), [file |-> IncludeTarget, pc |-> 1, n |-> 0])
            /\ processed' = processed + 1
            /\ firstOutcome' = IF Top.n = 1 THEN "processed" ELSE firstOutcome
            /\ UNCHANGED <<status, diags>>
       ELSE /\ status' = "error"
            /\ diags' = diags \cup {MissingDiag}
            /\ firstOutcome' = IF Top.n = 1 THEN "missing" ELSE firstOutcome
            /\ UNCHANGED <<stack, processed>>
    /\ UNCHANGED <<envVars, macros, out, inclusions, skipped, firstPre, firstOutAt>>

\* (variant) the sentinel is undefined again when the file ends
ShimEndifUndef ==
    /\ Running(Shim)
    /\ Top.pc = 16
    /\ macros' = macros \ {SENTINEL}
    /\ stack' = Pop
    /\ UNCHANGED <<envVars, out, status, diags, histVars>>

\* line 16: #endif, and the end of the file
ShimEndif ==
    /\ Running(Shim)
    /\ Top.pc = 16
    /\ stack' = Pop
    /\ UNCHANGED <<envVars, macros, out, status, diags, histVars>>

---------------------------------------------------------------------------
(* An SDK header: the platform header, when line 14 has opened it. *)

PlatformDeclare ==
    /\ InSdkFile
    /\ Top.pc <= Len(FileText(Top.file))
    /\ FileText(Top.file)[Top.pc].k = "decl"
    /\ LET d == FileText(Top.file)[Top.pc].n IN
          /\ out' = Append(out, [name |-> d, origin |-> Top.file])
          /\ diags' = IF d \in PlatformTypes /\ d \in Names(out)
                      THEN diags \cup {RedefDiag(d)} ELSE diags
    /\ stack' = At(Top.pc + 1)
    /\ UNCHANGED <<envVars, macros, status, histVars>>

PlatformInclude ==
    /\ InSdkFile
    /\ Top.pc <= Len(FileText(Top.file))
    /\ FileText(Top.file)[Top.pc].k = "include"
    /\ EnterShim(At(Top.pc + 1))
    /\ UNCHANGED <<envVars, macros, out>>

PlatformEnd ==
    /\ InSdkFile
    /\ Top.pc = Len(FileText(Top.file)) + 1
    /\ stack' = Pop
    /\ UNCHANGED <<envVars, macros, out, status, diags, histVars>>

---------------------------------------------------------------------------
Init ==
    /\ arch \in Archs
    /\ headerPresent \in BOOLEAN
    /\ cycleAt \in 0..(Len(PlatformDecls) + 1)
    /\ \E u \in SUBSET UserMacros : macros = {ArchMacro(arch)} \cup u
    /\ stack = << [file |-> "main", pc |-> 0, n |-> 0] >>
    /\ out = << >>
    /\ status = "running"
    /\ diags = {}
    /\ inclusions = 0
    /\ processed = 0
    /\ skipped = 0
    /\ firstPre = {}
    /\ firstOutAt = 0
    /\ firstOutcome = "none"

Next ==
    \/ TUIncludeShim
    \/ TUDefine
    \/ TUUndef
    \/ TUDeclare
    \/ TUEnd
    \/ ShimIfndef
    \/ ShimDefine
    \/ ShimInclude
    \/ ShimEndif
    \/ PlatformDeclare
    \/ PlatformInclude
    \/ PlatformEnd

Spec == Init /\ [][Next]_vars

\* a preprocessor run does not stop before the end of its input: it takes the next
\* directive whenever there is one
FairSpec == Spec /\ WF_vars(Next)

---------------------------------------------------------------------------
(***************************************************************************)
(* Properties.                                                             *)
(***************************************************************************)
\* the translation unit's own file is the innermost one: no inclusion is under way
AtRest == Len(stack) = 1

Seen == SENTINEL \in macros

Count(d) == Cardinality({i \in 1..Len(out) : out[i].name = d})

PlatformNames == Range(PlatformDecls)

\* the platform header's declarations as the preprocessor emits them
PlatformStream == [i \in 1..Len(PlatformDecls) |->
                     [name |-> PlatformDecls[i], origin |-> PlatformHeader]]

\* the first inclusion of the shim is still at line 11 or line 12
FirstBeforeDefine ==
    \E i \in 1..Len(stack) :
        stack[i].file = Shim /\ stack[i].n = 1 /\ stack[i].pc \in {11, 12}

\* an inclusion of the shim made while another one is still open
NestedShim == \E i \in 1..Len(stack) : stack[i].file = Shim /\ stack[i].n >= 2 /\ i > 2

\* C1. Idempotent inclusion: however many times the shim is included, directly or
\* through the platform header, line 14 opens the platform header on the first
\* inclusion and on no later one; every later inclusion is skipped at line 11; each
\* platform declaration appears exactly once and no redefinition is diagnosed.
C1_IdempotentInclusion ==
    /\ processed <= 1
    /\ \A d \in PlatformNames : Count(d) <= 1 /\ RedefDiag(d) \notin diags
    /\ (firstOutcome # "none" /\ headerPresent) => firstOutcome = "processed"
    /\ (AtRest /\ inclusions >= 1 /\ status # "error") =>
          /\ processed = 1
          /\ skipped = inclusions - 1
          /\ \A d \in PlatformNames : Count(d) = 1

C1_Witness ==
    /\ AtRest /\ status = "done"
    /\ inclusions >= 3
    /\ skipped = inclusions - 1
    /\ processed = 1

\* C2. The guard has two states, unseen (sentinel undefined) and seen (sentinel
\* defined): it is unseen until the first inclusion, seen from line 12 of the first
\* inclusion on, and no step takes it from seen back to unseen.
C2_GuardTransition ==
    /\ [](inclusions = 0 => ~Seen)
    /\ []((inclusions >= 1 /\ ~FirstBeforeDefine) => Seen)
    /\ [][Seen => Seen']_vars
    /\ [][(~Seen /\ Seen') => (Top.file = Shim /\ Top.n = 1 /\ Top.pc = 12)]_vars

C2_Witness == Seen /\ AtRest /\ inclusions >= 2 /\ status = "done"

\* C3. The shim takes no input: what the first inclusion does (the platform header is
\* opened, or is reported missing when the SDK lacks it) is the same whatever macros
\* were defined before it.  The macro tables range over every set of macros that the
\* compiler and the translation unit define; the sentinel, the one name line 11 reads,
\* is in none of them (guard locality, C7).
C3_NoMacroInput ==
    /\ inclusions >= 1 => firstPre \in SUBSET ForeignMacros
    /\ \A pre \in SUBSET ForeignMacros :
          (firstOutcome # "none" /\ firstPre = pre) =>
              firstOutcome = (IF headerPresent THEN "processed" ELSE "missing")

C3_Witness ==
    /\ firstOutcome = "processed"
    /\ "DEBUG" \in firstPre
    /\ AtRest

\* C4. Symbol availability: once a translation unit has included the shim and nothing
\* else, the request descriptor type and the interface-count, open, send and close
\* primitives are declared.
RequiredSymbols == {"IOI2CRequest", "IOFBGetI2CInterfaceCount", "IOI2CInterfaceOpen",
                    "IOI2CSendRequest", "IOI2CInterfaceClose"}

C4_SymbolAvailability ==
    (AtRest /\ inclusions >= 1 /\ status # "error") => RequiredSymbols \subseteq Names(out)

C4_Witness ==
    /\ AtRest /\ inclusions = 1 /\ status = "done"
    /\ Names(out) = RequiredSymbols

\* C5. No added definitions: no declaration in the stream comes from the shim itself;
\* after any number of inclusions the declared names are those of the translation unit
\* itself plus those of the platform header.
OwnNames == {out[i].name : i \in {j \in 1..Len(out) : out[j].origin = "main"}}

C5_NoAddedDefinitions ==
    /\ \A i \in 1..Len(out) : out[i].origin # Shim
    /\ (AtRest /\ status # "error") =>
          Names(out) = OwnNames \cup (IF inclusions >= 1 THEN PlatformNames ELSE {})

C5_Witness ==
    /\ AtRest /\ status = "done"
    /\ inclusions >= 2
    /\ OwnNames # {}
    /\ PlatformNames \subseteq Names(out)

\* C6. A missing platform header is a build failure and nothing else: the first
\* inclusion then ends the build at line 14 with the diagnostic naming the header and
\* no object is produced, and no inclusion of the shim ends in any other diagnostic.
C6_MissingHeaderFails ==
    /\ diags \subseteq {<<"file not found", PlatformHeader>>}
    /\ status = "error" =>
          /\ ~headerPresent
          /\ diags = {<<"file not found", PlatformHeader>>}
          /\ Top.file = Shim /\ Top.pc = 14
    /\ (~headerPresent /\ firstOutcome # "none") => status = "error"
    /\ status = "done" => (headerPresent \/ inclusions = 0)

C6_Witness ==
    /\ status = "error"
    /\ ~headerPresent
    /\ inclusions = 1
    /\ diags # {}

C8_PassThrough ==
    (Len(stack) > 0 /\ Top.file = Shim /\ Top.n = 1 /\ Top.pc = 16) =>
        /\ SubSeq(out, firstOutAt + 1, Len(out)) = PlatformStream
        /\ macros = firstPre \cup {SENTINEL}

C8_Witness ==
    /\ Len(stack) > 0 /\ Top.file = Shim /\ Top.n = 1 /\ Top.pc = 16
    /\ "DEBUG" \notin macros
    /\ firstOutAt > 0
    /\ Len(out) = firstOutAt + Len(PlatformDecls)

\* C9. Guard ordering: the sentinel is defined before the platform header is opened.
\* An inclusion of the shim from inside the platform header finds the sentinel defined
\* and emits nothing, the platform header is opened once, the nesting stays bounded and
\* the outer inclusion comes to its end; and when the include of line 14 fails, the
\* sentinel is already defined.
C9_Safety ==
    /\ (\E i \in 1..Len(stack) : stack[i].file = PlatformHeader) => Seen
    /\ \A i \in 1..Len(stack) :
          (stack[i].file = Shim /\ i > 2) => stack[i].pc \in {11, 16}
    /\ Len(stack) <= 4
    /\ processed <= 1
    /\ DepthDiag \notin diags
    /\ MissingDiag \in diags => Seen

C9_GuardOrdering ==
    /\ []C9_Safety
    /\ NestedShim ~> (AtRest /\ processed = 1 /\ \A d \in PlatformNames : Count(d) = 1)

C9_Witness ==
    /\ NestedShim
    /\ Top.file = Shim /\ Top.pc = 16
    /\ Len(stack) = 4

\* C10. No architecture gating: on a target other than x86_64 the first inclusion
\* still opens the platform header, or fails the build when the header is missing; it
\* never emits nothing.
C10_NoArchGating ==
    arch # "x86_64" =>
        /\ firstOutcome \in {"none", "processed", "missing"}
        /\ (AtRest /\ inclusions >= 1 /\ status # "error") =>
              (headerPresent /\ PlatformNames \subseteq Names(out))
        /\ (firstOutcome # "none" /\ ~headerPresent) =>
              (status = "error" /\ MissingDiag \in diags)

C10_Witness ==
    /\ arch = "arm64"
    /\ "__x86_64__" \notin macros
    /\ AtRest /\ inclusions >= 1 /\ status = "done"
    /\ PlatformNames \subseteq Names(out)

====
